---- MODULE Spec2Model ----
(***************************************************************************)
(* Model of draft.py: the draft analysis pipeline of the __main__ block    *)
(* (get_player_analysis, get_players_by_team, get_team_differentials) and  *)
(* the remote fetch (fetch_and_write_yahoo_data).                          *)
(*                                                                         *)
(* A Python dict is modelled in two ways.  A dict whose iteration order    *)
(* the code depends on (player_data, iterated by sorted() at line 168) is  *)
(* the sequence of its items in insertion order, keys pairwise distinct.   *)
(* A dict the code only subscripts is a function whose DOMAIN is the key   *)
(* set.  season_points (a float) is modelled by the integers               *)
(* 0..MaxPoints: the code only compares it and copies it.                  *)
(***************************************************************************)
EXTENDS Integers, Sequences, FiniteSets, TLC

VARIABLES
    draft_picks,                      \* List[DraftPick], result of read_draft
    player_data,                      \* Dict[PlayerId, YahooPlayerData], insertion order
    pc,                               \* position of the running script
    player_season_points_ranks,       \* line 142 (player_position_ranks of line 159)
    curr_position_ranks,              \* line 160, as left by the rank computation
    curr_draft_player_position_ranks, \* line 141
    pick_index,                       \* position of the for loop of line 144
    player_analysis_list,             \* line 140
    players,                          \* value returned at line 155
    teams,                            \* value returned at line 185
    team_differentials,               \* value returned at line 194
    fetched,                          \* player_data of line 96 (local of the fetch)
    queried,                          \* the remote queries issued so far, in order
    cache_file                        \* content of PLAYER_DATA_FILENAME

vars == <<draft_picks, player_data, pc, player_season_points_ranks,
          curr_position_ranks, curr_draft_player_position_ranks, pick_index,
          player_analysis_list, players, teams, team_differentials,
          fetched, queried, cache_file>>

---------------------------------------------------------------------------
\* Bounds of the model.
MaxPicks == 2      \* longest draft
MaxPoints == 1     \* season_points ranges over 0..MaxPoints
MaxPlayers == 3    \* longest PlayerAnalysis list given to the team aggregators

\* Input alphabets.
DraftIds == {"p1", "p2"}
StatsIds == {"p1", "p2", "p3"}
TeamNames == {"A", "B"}
FirstNames == {"Pat"}
LastNames == {"Doe"}
Positions == {"QB", "RB", "WR", "TE", "K", "DEF"}
InputPositions == {"QB", "RB", "LB"}      \* "LB" is no key of line 160
SeasonPoints == 0..MaxPoints
OverallPicks == {1, 2}
Differentials == {-1, 0, 1}

---------------------------------------------------------------------------
\* Dict helpers.

EmptyDict == [k \in {} |-> 0]

\* d[k] = v on a dict held as a function
Put(d, k, v) == [x \in (DOMAIN d) \cup {k} |-> IF x = k THEN v ELSE d[x]]

\* keys of a dict held as an item sequence
Keys(items) == {items[i].key : i \in 1..Len(items)}

\* items[k] for k in Keys(items)
GetItem(items, k) == items[CHOOSE i \in 1..Len(items) : items[i].key = k].value

\* items.values()
Values(items) == [i \in 1..Len(items) |-> items[i].value]

RECURSIVE Insert(_, _, _)
Insert(sorted, x, reverse) ==
    IF sorted = <<>> THEN <<x>>
    ELSE LET h == Head(sorted) IN
         IF (IF reverse THEN x.k > h.k ELSE x.k < h.k)
         THEN <<x>> \o sorted
         ELSE <<h>> \o Insert(Tail(sorted), x, reverse)

RECURSIVE InsertionSort(_, _)
InsertionSort(keyed, reverse) ==
    IF keyed = <<>> THEN <<>>
    ELSE Insert(InsertionSort(SubSeq(keyed, 1, Len(keyed) - 1), reverse),
                keyed[Len(keyed)], reverse)

\* sorted(seq, key=..., reverse=reverse) and list.sort(key=...), keys[i] being
\* the key of seq[i]: a stable sort, and reverse=True keeps equal elements in
\* their original order.
Sorted(seq, keys, reverse) ==
    LET keyed == [i \in 1..Len(seq) |-> [k |-> keys[i], v |-> seq[i]]]
        out == InsertionSort(keyed, reverse)
    IN [i \in 1..Len(out) |-> out[i].v]

---------------------------------------------------------------------------
\* Data classes.

DraftPick == [id : DraftIds, team_name : TeamNames, first_name : FirstNames,
              last_name : LastNames, overall_pick : OverallPicks]

YahooPlayerData(ids) == [id : ids, position : InputPositions, season_points : SeasonPoints]

PlayerAnalysis(id, team_name, first_name, last_name, position, overall_pick, season_points, draft_position_rank, season_end_position_rank, differential) ==
    [id |-> id, team_name |-> team_name, first_name |-> first_name,
     last_name |-> last_name, position |-> position, overall_pick |-> overall_pick,
     season_points |-> season_points, draft_position_rank |-> draft_position_rank,
     season_end_position_rank |-> season_end_position_rank,
     differential |-> differential]

---------------------------------------------------------------------------
\* _get_player_position_season_point_ranks

\* lines 160-167 with a counter for every position met (a defaultdict)
InitialPositionRanksAll == [p \in Positions \cup InputPositions |-> 1]

\* lines 160-167 with the counters starting at 0
InitialPositionRanksZero == [p \in Positions |-> 0]

\* the dict literal of lines 160-167
InitialPositionRanks == [p \in Positions |-> 1]

\* the key of line 168 negated: an ascending sort
SeasonPointsKeyNegated(player) == 0 - player.season_points

\* the key of line 168
SeasonPointsKey(player) == player.season_points

\* the loop of lines 170-172 over players_sorted; curr_position_ranks is a
\* plain dict, so a position that is no key of it raises KeyError
RECURSIVE RankPlayers(_, _)
RankPlayers(players_sorted, st) ==
    IF players_sorted = <<>> THEN st
    ELSE LET player == Head(players_sorted) IN
         IF player.position \notin DOMAIN st.curr
         THEN [st EXCEPT !.status = "KeyError"]
         ELSE RankPlayers(Tail(players_sorted),
                  [status |-> "ok",
                   ranks |-> Put(st.ranks, player.id, st.curr[player.position]),
                   curr |-> [st.curr EXCEPT ![player.position] = @ + 1]])

GetPlayerPositionSeasonPointRanks(data) ==
    LET values == Values(data)
        players_sorted ==
            Sorted(values, [i \in 1..Len(values) |-> SeasonPointsKey(values[i])], TRUE)
    IN RankPlayers(players_sorted,
           [status |-> "ok", ranks |-> EmptyDict, curr |-> InitialPositionRanks])

---------------------------------------------------------------------------
\* get_player_analysis

\* the default factory of line 141 starting at 0
DefaultDraftRankZero == 1 - 1

\* the default factory of line 141
DefaultDraftRank == 1

\* d[k] on a defaultdict
DefaultGet(d, k) == IF k \in DOMAIN d THEN d[k] ELSE DefaultDraftRank

\* lines 147-148 with one counter shared by all positions
DraftRankBucketShared(position) == "QB"

\* the subscript of lines 147-148: one counter per position
DraftRankBucket(position) == position

\* line 153 inserting at the front
PrependAnalysis(list, player_analysis) == <<player_analysis>> \o list

\* line 153
AppendAnalysis(list, player_analysis) == Append(list, player_analysis)

\* the last argument of line 152
Differential(draft_position_rank, season_points_position_rank) ==
    draft_position_rank - season_points_position_rank

\* One iteration of the loop of lines 144-153 with the KeyError swallowed
\* (pick skipped) instead of propagated.
AnalyzePickSkipMissing(st, pick, data, ranks) ==
    IF pick.id \notin Keys(data) \/ pick.id \notin DOMAIN ranks
    THEN st
    ELSE LET position == GetItem(data, pick.id).position
             draft_position_rank == DefaultGet(st.curr, DraftRankBucket(position))
         IN [status |-> "ok",
             curr |-> Put(st.curr, DraftRankBucket(position), draft_position_rank + 1),
             list |-> AppendAnalysis(st.list,
                 PlayerAnalysis(pick.id, pick.team_name, pick.first_name,
                     pick.last_name, position, pick.overall_pick,
                     GetItem(data, pick.id).season_points, draft_position_rank,
                     ranks[pick.id],
                     Differential(draft_position_rank, ranks[pick.id])))]

\* One iteration of the loop of lines 144-153.  Line 146 raises KeyError when
\* pick.id is no key of player_data; line 151 raises KeyError when pick.id is
\* no key of the rank dict (by then line 148 has advanced the counter).
AnalyzePick(st, pick, data, ranks) ==
    IF pick.id \notin Keys(data)
    THEN [st EXCEPT !.status = "KeyError"]
    ELSE LET position == GetItem(data, pick.id).position
             draft_position_rank == DefaultGet(st.curr, DraftRankBucket(position))
             curr == Put(st.curr, DraftRankBucket(position), draft_position_rank + 1)
             season_points == GetItem(data, pick.id).season_points
         IN IF pick.id \notin DOMAIN ranks
            THEN [status |-> "KeyError", curr |-> curr, list |-> st.list]
            ELSE LET season_points_position_rank == ranks[pick.id]
                     player_analysis ==
                         PlayerAnalysis(pick.id, pick.team_name, pick.first_name,
                             pick.last_name, position, pick.overall_pick,
                             season_points, draft_position_rank,
                             season_points_position_rank,
                             Differential(draft_position_rank,
                                          season_points_position_rank))
                 IN [status |-> "ok", curr |-> curr,
                     list |-> AppendAnalysis(st.list, player_analysis)]

---------------------------------------------------------------------------
\* get_players_by_team, get_team_differentials

\* line 183 with a key that orders nothing: the lists stay in input order
OverallPickKeyConstant(player) == 0

\* the key of line 183
OverallPickKey(player) == player.overall_pick

\* the loop of lines 179-180 (teams is a defaultdict(list))
RECURSIVE GroupPlayers(_, _)
GroupPlayers(list, acc) ==
    IF list = <<>> THEN acc
    ELSE LET player == Head(list)
             old == IF player.team_name \in DOMAIN acc
                    THEN acc[player.team_name] ELSE <<>>
         IN GroupPlayers(Tail(list), Put(acc, player.team_name, Append(old, player)))

GetPlayersByTeam(list) ==
    LET grouped == GroupPlayers(list, EmptyDict)
    IN [team \in DOMAIN grouped |->
           Sorted(grouped[team],
                  [i \in 1..Len(grouped[team]) |-> OverallPickKey(grouped[team][i])],
                  FALSE)]

\* line 192 with = for +=
AssignDifferential(sum, player) == player.differential

\* the += of line 192
AddDifferential(sum, player) == sum + player.differential

\* the loop of lines 191-192 (team_differentials is a defaultdict(lambda: 0))
RECURSIVE GetTeamDifferentialsFrom(_, _)
GetTeamDifferentialsFrom(list, acc) ==
    IF list = <<>> THEN acc
    ELSE LET player == Head(list)
             old == IF player.team_name \in DOMAIN acc
                    THEN acc[player.team_name] ELSE 0
         IN GetTeamDifferentialsFrom(Tail(list),
                Put(acc, player.team_name, AddDifferential(old, player)))

GetTeamDifferentials(list) == GetTeamDifferentialsFrom(list, EmptyDict)

---------------------------------------------------------------------------
\* Inputs.

SeqsUpTo(S, n) == UNION {[1..m -> S] : m \in 0..n}

DistinctKeys(items) ==
    \A i, j \in 1..Len(items) : items[i].key = items[j].key => i = j

\* every dict over the given keys, in every insertion order; a record's id
\* is whatever the cache file holds, so it need not be the record's key
StatsMappings(ids) ==
    {items \in SeqsUpTo([key : ids, value : YahooPlayerData(ids)], Cardinality(ids)) :
        DistinctKeys(items)}

Drafts == SeqsUpTo(DraftPick, MaxPicks)

Idle ==
    /\ player_season_points_ranks = EmptyDict
    /\ curr_position_ranks = EmptyDict
    /\ curr_draft_player_position_ranks = EmptyDict
    /\ pick_index = 1
    /\ player_analysis_list = <<>>
    /\ players = <<>>
    /\ teams = EmptyDict
    /\ team_differentials = EmptyDict
    /\ fetched = <<>>
    /\ queried = <<>>
    /\ cache_file = [exists |-> FALSE, data |-> <<>>]

\* __main__ after read_draft and read_yahoo_data (lines 220, 223)
Init ==
    /\ draft_picks \in Drafts
    /\ player_data \in StatsMappings(DraftIds)
    /\ pc = "main"
    /\ Idle

---------------------------------------------------------------------------
\* Steps of __main__ (lines 224-226).

\* lines 140-142
StartAnalysis ==
    /\ pc = "main"
    /\ LET r == GetPlayerPositionSeasonPointRanks(player_data) IN
         /\ player_season_points_ranks' = r.ranks
         /\ curr_position_ranks' = r.curr
         /\ pc' = IF r.status = "ok" THEN "loop" ELSE "KeyError"
    /\ curr_draft_player_position_ranks' = EmptyDict
    /\ player_analysis_list' = <<>>
    /\ pick_index' = 1
    /\ UNCHANGED <<draft_picks, player_data, players, teams, team_differentials,
                   fetched, queried, cache_file>>

\* lines 144-153, one pick
AnalyzeNextPick ==
    /\ pc = "loop"
    /\ pick_index <= Len(draft_picks)
    /\ LET r == AnalyzePick([status |-> "ok",
                             curr |-> curr_draft_player_position_ranks,
                             list |-> player_analysis_list],
                            draft_picks[pick_index], player_data,
                            player_season_points_ranks) IN
         /\ curr_draft_player_position_ranks' = r.curr
         /\ player_analysis_list' = r.list
         /\ pc' = IF r.status = "ok" THEN "loop" ELSE "KeyError"
    /\ pick_index' = pick_index + 1
    /\ UNCHANGED <<draft_picks, player_data, player_season_points_ranks,
                   curr_position_ranks, players, teams, team_differentials,
                   fetched, queried, cache_file>>

\* line 155
ReturnAnalysis ==
    /\ pc = "loop"
    /\ pick_index > Len(draft_picks)
    /\ players' = player_analysis_list
    /\ pc' = "analysed"
    /\ UNCHANGED <<draft_picks, player_data, player_season_points_ranks,
                   curr_position_ranks, curr_draft_player_position_ranks,
                   pick_index, player_analysis_list, teams, team_differentials,
                   fetched, queried, cache_file>>

\* line 225
GroupByTeam ==
    /\ pc = "analysed"
    /\ teams' = GetPlayersByTeam(players)
    /\ pc' = "grouped"
    /\ UNCHANGED <<draft_picks, player_data, player_season_points_ranks,
                   curr_position_ranks, curr_draft_player_position_ranks,
                   pick_index, player_analysis_list, players, team_differentials,
                   fetched, queried, cache_file>>

\* line 226
SumDifferentials ==
    /\ pc = "grouped"
    /\ team_differentials' = GetTeamDifferentials(players)
    /\ pc' = "summed"
    /\ UNCHANGED <<draft_picks, player_data, player_season_points_ranks,
                   curr_position_ranks, curr_draft_player_position_ranks,
                   pick_index, player_analysis_list, players, teams,
                   fetched, queried, cache_file>>

Next ==
    \/ StartAnalysis
    \/ AnalyzeNextPick
    \/ ReturnAnalysis
    \/ GroupByTeam
    \/ SumDifferentials

Spec == Init /\ [][Next]_vars

---------------------------------------------------------------------------
\* The rank computation alone, over every stats mapping of up to three
\* players (drafted or not).

InitRanks ==
    /\ draft_picks = <<>>
    /\ player_data \in StatsMappings(StatsIds)
    /\ pc = "main"
    /\ Idle

NextRanks == StartAnalysis

SpecRanks == InitRanks /\ [][NextRanks]_vars

---------------------------------------------------------------------------
\* The team aggregators alone, over every PlayerAnalysis list.

PlayerAnalysisInputs ==
    {PlayerAnalysis(id, team_name, "Pat", "Doe", "QB", overall_pick, 0, 1, 1, differential) :
        id \in DraftIds, team_name \in TeamNames, overall_pick \in OverallPicks,
        differential \in Differentials}

InitTeams ==
    /\ draft_picks = <<>>
    /\ player_data = <<>>
    /\ pc = "analysed"
    /\ player_season_points_ranks = EmptyDict
    /\ curr_position_ranks = EmptyDict
    /\ curr_draft_player_position_ranks = EmptyDict
    /\ pick_index = 1
    /\ player_analysis_list = <<>>
    /\ players \in SeqsUpTo(PlayerAnalysisInputs, MaxPlayers)
    /\ teams = EmptyDict
    /\ team_differentials = EmptyDict
    /\ fetched = <<>>
    /\ queried = <<>>
    /\ cache_file = [exists |-> FALSE, data |-> <<>>]

NextTeams ==
    \/ GroupByTeam
    \/ SumDifferentials

SpecTeams == InitTeams /\ [][NextTeams]_vars

---------------------------------------------------------------------------
\* fetch_and_write_yahoo_data

\* d[k] = v on a dict held as an item sequence: a key already present keeps
\* its place
PutItem(items, k, v) ==
    IF k \in Keys(items)
    THEN [i \in 1..Len(items) |-> IF items[i].key = k THEN [key |-> k, value |-> v]
                                  ELSE items[i]]
    ELSE Append(items, [key |-> k, value |-> v])

\* to_json (line 52): the JSON text of the record's __dict__, held as its
\* member names and values in order
ToJson(v) == <<"id", v.id, "position", v.position, "season_points", v.season_points>>

\* the dict comprehension of line 122
JsonData(data) ==
    [i \in 1..Len(data) |-> [key |-> data[i].key, value |-> ToJson(data[i].value)]]

\* what get_player_stats_for_season can do: raise, or answer
QueryFailure == [ok |-> FALSE]

Responses ==
    {QueryFailure} \cup
    [ok : {TRUE}, primary_position : InputPositions, player_points_value : SeasonPoints]

\* One iteration of the loop of lines 99-101 with a failed query swallowed
\* (player skipped) instead of propagated.
FetchPlayerSkipFailure(st, player, response) ==
    IF ~response.ok
    THEN st
    ELSE [status |-> "ok",
          data |-> PutItem(st.data, player.id,
                       [id |-> player.id, position |-> response.primary_position,
                        season_points |-> response.player_points_value])]

\* One iteration of the loop of lines 99-101: a failed query raises out of
\* the loop, nothing catches it
FetchPlayer(st, player, response) ==
    IF ~response.ok
    THEN [st EXCEPT !.status = "failed"]
    ELSE [status |-> "ok",
          data |-> PutItem(st.data, player.id,
                       [id |-> player.id, position |-> response.primary_position,
                        season_points |-> response.player_points_value])]

\* a cache file left by an earlier run
OldCacheFile ==
    [exists |-> TRUE,
     data |-> JsonData(<<[key |-> "p1",
                          value |-> [id |-> "p1", position |-> "QB", season_points |-> 0]]>>)]

NoCacheFile == [exists |-> FALSE, data |-> <<>>]

\* __main__ with line 222 uncommented, after read_draft
InitFetch ==
    /\ draft_picks \in Drafts
    /\ player_data = <<>>
    /\ pc = "fetch"
    /\ player_season_points_ranks = EmptyDict
    /\ curr_position_ranks = EmptyDict
    /\ curr_draft_player_position_ranks = EmptyDict
    /\ pick_index = 1
    /\ player_analysis_list = <<>>
    /\ players = <<>>
    /\ teams = EmptyDict
    /\ team_differentials = EmptyDict
    /\ fetched = <<>>
    /\ queried = <<>>
    /\ cache_file \in {NoCacheFile, OldCacheFile}

\* lines 96-97; _create_yahoo_query raises when the environment lacks a key
CreateYahooQuery ==
    /\ pc = "fetch"
    /\ \E created \in BOOLEAN : pc' = IF created THEN "query" ELSE "failed"
    /\ fetched' = <<>>
    /\ pick_index' = 1
    /\ UNCHANGED <<draft_picks, player_data, player_season_points_ranks,
                   curr_position_ranks, curr_draft_player_position_ranks,
                   player_analysis_list, players, teams, team_differentials,
                   queried, cache_file>>

\* lines 99-101, one player
QueryPlayer ==
    /\ pc = "query"
    /\ pick_index <= Len(draft_picks)
    /\ \E response \in Responses :
         LET player == draft_picks[pick_index]
             r == FetchPlayer([status |-> "ok", data |-> fetched], player, response)
         IN /\ queried' = Append(queried, [id |-> player.id, ok |-> response.ok])
            /\ fetched' = r.data
            /\ pc' = IF r.status = "ok" THEN "query" ELSE "failed"
    /\ pick_index' = pick_index + 1
    /\ UNCHANGED <<draft_picks, player_data, player_season_points_ranks,
                   curr_position_ranks, curr_draft_player_position_ranks,
                   player_analysis_list, players, teams, team_differentials,
                   cache_file>>

\* lines 103, 83-84 and 121-125
WriteYahooData ==
    /\ pc = "query"
    /\ pick_index > Len(draft_picks)
    /\ cache_file' = [exists |-> TRUE, data |-> JsonData(fetched)]
    /\ pc' = "stored"
    /\ UNCHANGED <<draft_picks, player_data, player_season_points_ranks,
                   curr_position_ranks, curr_draft_player_position_ranks,
                   pick_index, player_analysis_list, players, teams,
                   team_differentials, fetched, queried>>

NextFetch ==
    \/ CreateYahooQuery
    \/ QueryPlayer
    \/ WriteYahooData

SpecFetch == InitFetch /\ [][NextFetch]_vars

---------------------------------------------------------------------------
\* Properties.

\* get_player_analysis has returned its list
Returned == pc \in {"analysed", "grouped", "summed"}

\* the run has ended: no step of __main__ is left
Ended == pc \in {"KeyError", "summed"}

MissingPick == \E i \in 1..Len(draft_picks) : draft_picks[i].id \notin Keys(player_data)

UnknownPosition ==
    \E i \in 1..Len(player_data) : player_data[i].value.position \notin Positions

DistinctRecordIds ==
    \A i, j \in 1..Len(player_data) :
        player_data[i].value.id = player_data[j].value.id => i = j

RECURSIVE SumOver(_, _)
SumOver(S, f) ==
    IF S = {} THEN 0
    ELSE LET x == CHOOSE y \in S : TRUE IN f[x] + SumOver(S \ {x}, f)

\* the players of a position in the stats mapping, as indices of its items
PlayersOfPosition(position) ==
    {i \in 1..Len(player_data) : player_data[i].value.position = position}

\* the season-end rank the returned dict holds for the i-th stats record
SeasonEndRank(i) == player_season_points_ranks[player_data[i].value.id]

\* the position the i-th draft pick is analysed under
PositionOfPick(i) == GetItem(player_data, draft_picks[i].id).position

\* C1: whenever get_player_analysis returns, the list has one entry per draft
\* pick and the i-th entry carries the id, team_name and overall_pick of the
\* i-th pick.
C1_OutputFollowsDraft ==
    Returned =>
        /\ Len(players) = Len(draft_picks)
        /\ \A i \in 1..Len(draft_picks) :
             /\ players[i].id = draft_picks[i].id
             /\ players[i].team_name = draft_picks[i].team_name
             /\ players[i].overall_pick = draft_picks[i].overall_pick

C1_Witness ==
    /\ Returned
    /\ Len(draft_picks) = 2
    /\ draft_picks[1].id # draft_picks[2].id
    /\ draft_picks[1].team_name # draft_picks[2].team_name
    /\ draft_picks[1].overall_pick > draft_picks[2].overall_pick

\* the ranks of a position are 1..k, each used once
SeasonEndRanksArePermutation ==
    \A position \in Positions :
        LET I == PlayersOfPosition(position) IN
        /\ \A i \in I : player_data[i].value.id \in DOMAIN player_season_points_ranks
        /\ \A r \in 1..Cardinality(I) :
             Cardinality({i \in I : SeasonEndRank(i) = r}) = 1

\* C2 as stated: for every stats mapping with known positions only, the
\* season-end ranks of the players of a position are exactly 1..k, each once.
C2_AsStated == (pc = "loop") => SeasonEndRanksArePermutation

\* C2 amended: the same, for stats mappings whose records have pairwise
\* distinct ids.
C2_RanksArePermutation ==
    (pc = "loop" /\ DistinctRecordIds) => SeasonEndRanksArePermutation

C2_Witness ==
    /\ pc = "loop"
    /\ DistinctRecordIds
    /\ Len(player_data) = 3
    /\ Cardinality(PlayersOfPosition("QB")) = 2
    /\ Cardinality(PlayersOfPosition("RB")) = 1
    /\ \E i \in 1..3 : player_data[i].value.id # player_data[i].key

SeasonEndRanksFollowPoints ==
    \A i, j \in 1..Len(player_data) :
        LET p == player_data[i].value
            q == player_data[j].value
        IN (i # j /\ p.position = q.position) =>
             /\ p.season_points > q.season_points => SeasonEndRank(i) < SeasonEndRank(j)
             /\ (p.season_points = q.season_points /\ i < j) =>
                    SeasonEndRank(i) < SeasonEndRank(j)

\* C3 as stated: of two players of a position the one with more season_points
\* has the smaller rank, and of two with equal points the one earlier in the
\* stats mapping's iteration order.
C3_AsStated == (pc = "loop") => SeasonEndRanksFollowPoints

\* C3 amended: the same, for stats mappings whose records have pairwise
\* distinct ids.
C3_RanksFollowPoints ==
    (pc = "loop" /\ DistinctRecordIds) => SeasonEndRanksFollowPoints

C3_Witness ==
    /\ pc = "loop"
    /\ DistinctRecordIds
    /\ Len(player_data) = 3
    /\ Cardinality(PlayersOfPosition("RB")) = 3
    /\ player_data[1].value.season_points = player_data[2].value.season_points
    /\ player_data[3].value.season_points > player_data[1].value.season_points
    /\ SeasonEndRank(3) = 1
    /\ SeasonEndRank(1) = 2

\* C4: the j-th draft pick of a position has draft_position_rank j, whatever
\* the season_points; so the draft ranks of a position are 1..m, each once.
C4_DraftRankIsDraftOrder ==
    Returned =>
        /\ \A i \in 1..Len(players) :
             players[i].draft_position_rank =
                 Cardinality({j \in 1..i : PositionOfPick(j) = PositionOfPick(i)})
        /\ \A position \in Positions \cup InputPositions :
             LET I == {i \in 1..Len(players) : players[i].position = position} IN
             \A r \in 1..Cardinality(I) :
                 Cardinality({i \in I : players[i].draft_position_rank = r}) = 1

C4_Witness ==
    /\ Returned
    /\ Len(players) = 2
    /\ players[1].position = players[2].position
    /\ players[1].season_points < players[2].season_points
    /\ players[1].draft_position_rank = 1
    /\ players[2].draft_position_rank = 2
    /\ players[2].season_end_position_rank = 1

\* C5: with a draft pick whose id is no key of the stats mapping,
\* get_player_analysis never returns a list (complete or partial), builds no
\* PlayerAnalysis for such a pick, and the run ends in the KeyError.
C5_MissingStatsIsFatal ==
    MissingPick =>
        /\ ~Returned
        /\ players = <<>>
        /\ \A i \in 1..Len(player_analysis_list) :
             player_analysis_list[i].id \in Keys(player_data)
        /\ Ended => pc = "KeyError"

C5_Witness ==
    /\ MissingPick
    /\ ~UnknownPosition
    /\ pc = "KeyError"
    /\ Len(player_analysis_list) = 1
    /\ pick_index = 3

\* C9: with a stats record of a position outside QB, RB, WR, TE, K, DEF the
\* rank computation ends in the KeyError, get_player_analysis returns no
\* list, and no counter is ever kept for such a position.
C9_UnknownPositionIsFatal ==
    UnknownPosition =>
        /\ pc \in {"main", "KeyError"}
        /\ players = <<>>
        /\ player_analysis_list = <<>>
        /\ DOMAIN curr_position_ranks \subseteq Positions
        /\ DOMAIN curr_draft_player_position_ranks \subseteq Positions
        /\ Ended => pc = "KeyError"

C9_Witness ==
    /\ UnknownPosition
    /\ ~MissingPick
    /\ pc = "KeyError"
    /\ Len(draft_picks) = 2
    /\ \A i \in 1..2 : PositionOfPick(i) \in Positions

\* the preconditions of C10
PicksMatchStats ==
    /\ \A i, j \in 1..Len(draft_picks) : draft_picks[i].id = draft_picks[j].id => i = j
    /\ {draft_picks[i].id : i \in 1..Len(draft_picks)} = Keys(player_data)
    /\ \A i \in 1..Len(player_data) : player_data[i].value.id = player_data[i].key
    /\ ~UnknownPosition

\* C10: when the picks have distinct ids, their ids are the keys of the stats
\* mapping, every record's id is its key and every position is known, the
\* differentials of each position sum to 0, and so do the team differentials.
C10_DifferentialsSumToZero ==
    PicksMatchStats =>
        /\ Returned =>
             \A position \in Positions :
                 SumOver({i \in 1..Len(players) : players[i].position = position},
                         [i \in 1..Len(players) |-> players[i].differential]) = 0
        /\ pc = "summed" => SumOver(DOMAIN team_differentials, team_differentials) = 0

C10_Witness ==
    /\ PicksMatchStats
    /\ pc = "summed"
    /\ DOMAIN team_differentials = {"A", "B"}
    /\ team_differentials["A"] = 1
    /\ team_differentials["B"] = -1

\* the number of times x occurs in list
Count(list, x) == Cardinality({i \in 1..Len(list) : list[i] = x})

\* C6: the lists of get_players_by_team hold every input player exactly once,
\* each in the list of its own team and in no other, each list in ascending
\* overall_pick order with players of equal overall_pick in input order.
C6_TeamsPartitionAndSort ==
    pc \in {"grouped", "summed"} =>
        /\ DOMAIN teams = {players[i].team_name : i \in 1..Len(players)}
        /\ \A team \in DOMAIN teams :
             /\ \A i \in 1..Len(teams[team]) : teams[team][i].team_name = team
             /\ \A i, j \in 1..Len(teams[team]) :
                  i < j => teams[team][i].overall_pick <= teams[team][j].overall_pick
             /\ \A n \in OverallPicks :
                  LET IsPick(player) == player.overall_pick = n
                      IsTeamPick(player) == player.team_name = team /\ player.overall_pick = n
                  IN SelectSeq(teams[team], IsPick) = SelectSeq(players, IsTeamPick)
        /\ \A i \in 1..Len(players) :
             Count(players, players[i]) = Count(teams[players[i].team_name], players[i])

C6_Witness ==
    /\ pc = "grouped"
    /\ Len(players) = 3
    /\ DOMAIN teams = {"A"}
    /\ players[1].overall_pick = 2
    /\ players[2].overall_pick = 1
    /\ players[3].overall_pick = 1
    /\ players[2] # players[3]
    /\ teams["A"] = <<players[2], players[3], players[1]>>

\* C7: get_team_differentials has an entry for exactly the team names of the
\* input, each the sum of differential over the input players of that team.
C7_TeamDifferentialsAreSums ==
    pc = "summed" =>
        /\ DOMAIN team_differentials = {players[i].team_name : i \in 1..Len(players)}
        /\ \A team \in DOMAIN team_differentials :
             team_differentials[team] =
                 SumOver({i \in 1..Len(players) : players[i].team_name = team},
                         [i \in 1..Len(players) |-> players[i].differential])

C7_Witness ==
    /\ pc = "summed"
    /\ Len(players) = 3
    /\ DOMAIN team_differentials = {"B"}
    /\ team_differentials["B"] = -2
    /\ players[3].differential = 0

AFailedQuery == \E i \in 1..Len(queried) : ~queried[i].ok

\* C8: the cache file changes only once every pick has been queried with
\* success; after a failed query no pick is queried, nothing is written and
\* nothing else happens; picks are queried in draft order, each once.
C8_NoPartialPersistence ==
    [][/\ cache_file' # cache_file =>
            /\ Len(queried) = Len(draft_picks)
            /\ ~AFailedQuery
            /\ pc' = "stored"
       /\ AFailedQuery => (pc = "failed" /\ UNCHANGED <<queried, cache_file, fetched, pc>>)
       /\ queried' # queried =>
            /\ Len(queried) < Len(draft_picks)
            /\ \E ok \in BOOLEAN :
                 queried' = Append(queried,
                                [id |-> draft_picks[Len(queried) + 1].id, ok |-> ok])
      ]_vars

C8_Witness ==
    /\ pc = "failed"
    /\ Len(draft_picks) = 2
    /\ Len(queried) = 2
    /\ queried[1].ok
    /\ ~queried[2].ok
    /\ Len(fetched) = 1
    /\ cache_file = OldCacheFile

====
